---------------------------- MODULE Spec2Model ----------------------------
(***************************************************************************)
(* Model of apply_iptc.py: the matcher (find_best_match), the              *)
(* disambiguator (disambiguate_matches) and the row loop of main.          *)
(*                                                                         *)
(* A Python str is a sequence of one-character strings, so that lower(),   *)
(* strip(), split(), splitext(), startswith(), `in`, isdigit(), int() and  *)
(* strptime() are computed, character by character, as Python computes     *)
(* them.  A candidate is identified by its position in the index `images`  *)
(* (the dict object the code returns); 0 stands for None.                  *)
(***************************************************************************)
EXTENDS Integers, Sequences, FiniteSets, TLC

(***************************************************************************)
(* Bounds of the model.                                                    *)
(***************************************************************************)
MaxImages == 3
MaxRows == 2

(***************************************************************************)
(* Program constants.                                                      *)
(***************************************************************************)
DATE_TOLERANCE == 300

(***************************************************************************)
(* Characters and strings.                                                 *)
(***************************************************************************)
Digits == {"0", "1", "2", "3", "4", "5", "6", "7", "8", "9"}

Whitespace == {" ", "\t", "\n", "\r"}

UpperChars == <<"A","B","C","D","E","F","G","H","I","J","K","L","M",
                "N","O","P","Q","R","S","T","U","V","W","X","Y","Z","Ø">>

LowerChars == <<"a","b","c","d","e","f","g","h","i","j","k","l","m",
                "n","o","p","q","r","s","t","u","v","w","x","y","z","ø">>

UpperSet == {UpperChars[i] : i \in 1..Len(UpperChars)}

LowerOf == [c \in UpperSet |->
              LowerChars[CHOOSE i \in 1..Len(UpperChars) : UpperChars[i] = c]]

\* str.lower() on one character
LowerChar(c) == IF c \in UpperSet THEN LowerOf[c] ELSE c

\* str.lower()
Lower(s) == [i \in 1..Len(s) |-> LowerChar(s[i])]

\* str.isdigit() on one character
IsDigit(c) == c \in Digits

\* s[a:b] with 1-based inclusive positions a..b
Slice(s, a, b) == [i \in 1..(b - a + 1) |-> s[a + i - 1]]

\* str.strip(): leading and trailing whitespace removed
Strip(s) ==
  LET keep == {i \in 1..Len(s) : s[i] \notin Whitespace}
  IN IF keep = {} THEN <<>>
     ELSE LET a == CHOOSE i \in keep : \A j \in keep : i <= j
              b == CHOOSE i \in keep : \A j \in keep : j <= i
          IN Slice(s, a, b)

\* str.startswith(p)
StartsWith(s, p) ==
  /\ Len(p) <= Len(s)
  /\ \A i \in 1..Len(p) : s[i] = p[i]

\* `n in h` for two str: n occurs in h as a substring ('' is in every str)
Contains(h, n) ==
  \E k \in 0..(Len(h) - Len(n)) : \A i \in 1..Len(n) : h[k + i] = n[i]

\* os.path.splitext(p)[0] for a name without directory separators: the
\* extension starts at the last dot, unless only dots precede it
SplitExtRoot(p) ==
  LET dots == {i \in 1..Len(p) : p[i] = "."}
  IN IF dots = {} THEN p
     ELSE LET d == CHOOSE i \in dots : \A j \in dots : j <= i
          IN IF \E j \in 1..(d - 1) : p[j] # "." THEN Slice(p, 1, d - 1) ELSE p

\* s.split('.')[0]: the text before the first dot
BeforeFirstDot(s) ==
  LET dots == {i \in 1..Len(s) : s[i] = "."}
  IN IF dots = {} THEN s
     ELSE Slice(s, 1, (CHOOSE i \in dots : \A j \in dots : i <= j) - 1)

\* set(s.split()): the set of maximal runs of non-whitespace characters
Words(s) ==
  LET starts == {a \in 1..Len(s) :
                   s[a] \notin Whitespace /\ (a = 1 \/ s[a - 1] \in Whitespace)}
      IsEnd(b) == b = Len(s) \/ s[b + 1] \in Whitespace
      EndOf(a) == CHOOSE b \in a..Len(s) :
                    IsEnd(b) /\ \A j \in a..(b - 1) : ~IsEnd(j)
  IN { Slice(s, a, EndOf(a)) : a \in starts }

\* get_numbers(s): the digits of s, in order
get_numbers(s) == SelectSeq(s, IsDigit)


(***************************************************************************)
(* int(str) and datetime.strptime(str, format).                            *)
(***************************************************************************)
DigitVal(c) == CHOOSE v \in 0..9 : <<"0","1","2","3","4","5","6","7","8","9">>[v + 1] = c

RECURSIVE DecimalValue(_)
DecimalValue(s) ==
  IF Len(s) = 0 THEN 0
  ELSE 10 * DecimalValue(Slice(s, 1, Len(s) - 1)) + DigitVal(s[Len(s)])

\* the text int() converts after stripping whitespace and an optional sign
IntDigits(s) ==
  LET t == Strip(s)
  IN IF Len(t) > 0 /\ t[1] \in {"+", "-"} THEN Slice(t, 2, Len(t)) ELSE t

\* int(s) returns a value (otherwise it raises ValueError)
IntParses(s) ==
  /\ Len(IntDigits(s)) > 0
  /\ \A i \in 1..Len(IntDigits(s)) : IsDigit(IntDigits(s)[i])

\* int(s) for a str that parses
IntOf(s) ==
  LET t == Strip(s)
      v == DecimalValue(IntDigits(s))
  IN IF t[1] = "-" THEN 0 - v ELSE v

IsLeap(y) == (y % 4 = 0 /\ y % 100 # 0) \/ y % 400 = 0

DaysInMonth(y, m) ==
  IF m = 2 THEN (IF IsLeap(y) THEN 29 ELSE 28)
  ELSE IF m \in {4, 6, 9, 11} THEN 30 ELSE 31

\* days from 2000-03-01 to y-m-d (proleptic Gregorian calendar)
DayNumber(y, m, d) ==
  LET yy == IF m <= 2 THEN y - 1 ELSE y
      mp == (m + 9) % 12
  IN 365 * (yy - 2000) + (yy \div 4) - (yy \div 100) + (yy \div 400) - 485
       + ((153 * mp + 2) \div 5) + d - 1

\* datetime.strptime raised ValueError
NoDate == [ok |-> FALSE, t |-> 0]

\* datetime.strptime(s, "%Y<sep>%m<sep>%d %H:%M:%S"): the naive datetime as
\* seconds since 2000-03-01 00:00:00, or NoDate where strptime raises.  The
\* fields are read at their zero-padded widths (strptime also takes one-digit
\* months, days, hours, minutes and seconds, which no modelled input has);
\* text after the seconds ("unconverted data remains") makes it raise.
Strptime(s, sep) ==
  LET num(a, b) == DecimalValue(Slice(s, a, b))
      y == num(1, 4)
      mo == num(6, 7)
      d == num(9, 10)
      h == num(12, 13)
      mi == num(15, 16)
      se == num(18, 19)
  IN IF /\ Len(s) = 19
        /\ s[5] = sep /\ s[8] = sep /\ s[11] = " " /\ s[14] = ":" /\ s[17] = ":"
        /\ \A i \in (1..19) \ {5, 8, 11, 14, 17} : IsDigit(s[i])
     THEN IF /\ y >= 1 /\ mo \in 1..12 /\ d >= 1 /\ d <= DaysInMonth(y, mo)
             /\ h <= 23 /\ mi <= 59 /\ se <= 59
          THEN [ok |-> TRUE,
                t |-> DayNumber(y, mo, d) * 86400 + h * 3600 + mi * 60 + se]
          ELSE NoDate
     ELSE NoDate

Abs(x) == IF x < 0 THEN 0 - x ELSE x

(***************************************************************************)
(* Rows and image records.                                                 *)
(*                                                                         *)
(* A row is [Filename, FileSize, PublishedDate]; an optional column is     *)
(* [has |-> FALSE, text |-> <<>>] when the row has no value for it (the    *)
(* column is missing, or csv.DictReader filled a short row with None).     *)
(* An image record is [filename, size, raw_filename, modify_date], the     *)
(* fields of get_img_metadata that the matcher reads.                      *)
(***************************************************************************)

\* int(csv_row.get('File Size', 0) or 0) returns (it raises ValueError otherwise)
CsvSizeParses(row) ==
  row.FileSize.has /\ Len(row.FileSize.text) > 0 => IntParses(row.FileSize.text)

\* int(csv_row.get('File Size', 0) or 0)
CsvSize(row) ==
  IF row.FileSize.has /\ Len(row.FileSize.text) > 0
  THEN IntOf(row.FileSize.text)
  ELSE 0

\* the locals of find_best_match that its lambdas close over:
\*   filename = csv_row['Filename'].strip()
\*   csv_size = int(csv_row.get('File Size', 0) or 0)
\*   base_filename = os.path.splitext(filename)[0].lower()
\*   csv_numbers = get_numbers(filename)
Locals(row) ==
  LET filename == Strip(row.Filename)
  IN [filename |-> filename,
      csv_size |-> CsvSize(row),
      base_filename |-> Lower(SplitExtRoot(filename)),
      csv_numbers |-> get_numbers(filename)]

\* abs(img['size'] - csv_size) <= size_tolerance, where size_tolerance is
\* min(csv_size * 0.05, 100 * 1024) if csv_size > 0 else 0.  For integers d
\* and c > 0, d <= c * 0.05 in double arithmetic exactly when 20 * d <= c.
WithinSizeTolerance(img, csv_size) ==
  LET d == Abs(img.size - csv_size)
  IN IF csv_size > 0
     THEN 20 * d <= csv_size /\ d <= 100 * 1024
     ELSE d <= 0

\* WithinOneKB with the boundary left out
WithinOneKBStrict(img, csv_size) == Abs(img.size - csv_size) < 1024

\* abs(img['size'] - csv_size) <= 1024
WithinOneKB(img, csv_size) == Abs(img.size - csv_size) <= 1024

JHR == <<"J","H","R">>

SAL == <<"S","A","L","-">>

JobbBonus == <<"J","o","b","b"," ","b","o","n","u","s"," ","i"," ",
               "L","i","l","l","e","s","t","r","ø","m"," ",
               "k","o","m","m","u","n","e">>

Overlege == <<"O","v","e","r","l","e","g","e"," ","J","a","c","o","b"," ",
              "D","a","g"," ","B","e","r","i","l","d">>

\* strategies[k - 1](img): the k-th lambda of the ladder, over the locals c
Strategy(k, c, img) ==
  CASE k = 1 -> /\ Len(img.raw_filename) > 0
                /\ Lower(SplitExtRoot(img.raw_filename)) = c.base_filename
    [] k = 2 -> c.csv_size > 0 /\ WithinOneKB(img, c.csv_size)
    [] k = 3 -> c.csv_size > 0 /\ WithinSizeTolerance(img, c.csv_size)
    [] k = 4 -> Lower(img.filename) = Lower(c.filename)
    [] k = 5 -> Lower(SplitExtRoot(img.filename)) = c.base_filename
    [] k = 6 -> /\ StartsWith(c.filename, JHR)
                /\ StartsWith(img.filename, JobbBonus)
                /\ get_numbers(img.filename) = c.csv_numbers
    [] k = 7 -> /\ StartsWith(c.filename, SAL)
                /\ StartsWith(img.filename, Overlege)
                /\ get_numbers(img.filename) = c.csv_numbers
    [] k = 8 -> /\ Len(c.csv_numbers) > 0
                /\ get_numbers(img.filename) = c.csv_numbers
    [] k = 9 -> \/ Contains(Lower(SplitExtRoot(img.filename)), c.base_filename)
                \/ Contains(c.base_filename, Lower(SplitExtRoot(img.filename)))

NumStrategies == 9

\* [img for img in images if strategy(img)], as positions in the index
StrategyMatches(k, c, images) ==
  LET Hit(i) == Strategy(k, c, images[i])
  IN SelectSeq([i \in 1..Len(images) |-> i], Hit)

(***************************************************************************)
(* disambiguate_matches(csv_row, matches).  `matches` is a sequence of     *)
(* positions in `images`; the result is a position, or 0 for None.         *)
(***************************************************************************)

\* float('inf'): the difference recorded for a candidate whose date is unparsable
InfDiff == [inf |-> TRUE, v |-> 0]

\* the entry appended to date_diffs for candidate img
DateDiff(img, csv_date) ==
  LET img_date == Strptime(BeforeFirstDot(img.modify_date), ":")
  IN IF img_date.ok
     THEN [inf |-> FALSE, v |-> Abs(img_date.t - csv_date.t)]
     ELSE InfDiff

\* a <= b on date_diffs entries
DiffLeq(a, b) == b.inf \/ (~a.inf /\ a.v <= b.v)

\* csv_date = datetime.strptime(csv_row.get('Published Date', ''), "%Y-%m-%d %H:%M:%S")
CsvDate(row) ==
  IF row.PublishedDate.has THEN Strptime(row.PublishedDate.text, "-") ELSE NoDate

\* DisambiguateByDate taking the first of the nearest dates, unique or not
DisambiguateByDateFirst(row, images, matches) ==
  LET csv_date == CsvDate(row)
      date_diffs == [j \in 1..Len(matches) |-> DateDiff(images[matches[j]], csv_date)]
      min_date_diff ==
        date_diffs[CHOOSE j \in 1..Len(matches) :
                     \A l \in 1..Len(matches) : DiffLeq(date_diffs[j], date_diffs[l])]
      IsMin(j) == date_diffs[j] = min_date_diff
      date_matches == SelectSeq([j \in 1..Len(matches) |-> j], IsMin)
  IN IF ~csv_date.ok THEN 0
     ELSE IF ~min_date_diff.inf /\ min_date_diff.v < DATE_TOLERANCE
          THEN matches[date_matches[1]]
          ELSE 0

\* step 2 of disambiguate_matches: the try block over the dates
DisambiguateByDate(row, images, matches) ==
  LET csv_date == CsvDate(row)
      date_diffs == [j \in 1..Len(matches) |-> DateDiff(images[matches[j]], csv_date)]
      min_date_diff ==
        date_diffs[CHOOSE j \in 1..Len(matches) :
                     \A l \in 1..Len(matches) : DiffLeq(date_diffs[j], date_diffs[l])]
      IsMin(j) == date_diffs[j] = min_date_diff
      date_matches == SelectSeq([j \in 1..Len(matches) |-> j], IsMin)
  IN IF ~csv_date.ok THEN 0
     ELSE IF ~min_date_diff.inf /\ min_date_diff.v < DATE_TOLERANCE
          THEN IF Len(date_matches) = 1 THEN matches[date_matches[1]] ELSE 0
          ELSE 0

disambiguate_matches(row, images, matches) ==
  IF Len(matches) = 0 THEN 0
  ELSE IF Len(matches) = 1 THEN matches[1]
  ELSE
    LET csv_size == CsvSize(row)
        size_diff == [j \in 1..Len(matches) |->
                        Abs(images[matches[j]].size - csv_size)]
        min_size_diff ==
          size_diff[CHOOSE j \in 1..Len(matches) :
                      \A l \in 1..Len(matches) : size_diff[j] <= size_diff[l]]
        IsMin(j) == size_diff[j] = min_size_diff
        size_matches == SelectSeq([j \in 1..Len(matches) |-> j], IsMin)
    IN IF Len(size_matches) = 1 THEN matches[size_matches[1]]
       ELSE DisambiguateByDate(row, images, matches)

(***************************************************************************)
(* find_best_match(csv_row, images).  The result records what the call     *)
(* returned or raised, and how it got there:                               *)
(*   raised  int() raised ValueError on the row's 'File Size'              *)
(*   img     the returned candidate's position in images, 0 for None       *)
(*   via     the ladder strategy (1..9) that returned, 10 and 11 for the   *)
(*           size and the word test of the final loop, 0 for the final     *)
(*           `return None` and for an empty index                          *)
(*   tie     the matches handed to disambiguate_matches, <<>> if none were *)
(***************************************************************************)
Returned(i, k, t) == [raised |-> FALSE, img |-> i, via |-> k, tie |-> t]

Raised == [raised |-> TRUE, img |-> 0, via |-> 0, tie |-> <<>>]

\* the body of `elif len(matches) > 1` for the matches of strategy k
ResolveTie(k, row, c, images, matches) ==
  LET InTol(i) == WithinSizeTolerance(images[i], c.csv_size)
      size_matches == SelectSeq(matches, InTol)
  IN IF c.csv_size > 0 /\ Len(size_matches) = 1
     THEN Returned(size_matches[1], k, <<>>)
     ELSE Returned(disambiguate_matches(row, images, matches), k, matches)

\* ShareWords without the test for one long word
ShareTwoWords(c, img) ==
  LET csv_words == Words(c.base_filename)
      img_words == Words(Lower(SplitExtRoot(img.filename)))
  IN Cardinality(csv_words \cap img_words) >= 2

\* len(common_words) >= 2 or any(len(word) > 5 for word in common_words)
ShareWords(c, img) ==
  LET csv_words == Words(c.base_filename)
      img_words == Words(Lower(SplitExtRoot(img.filename)))
      common_words == csv_words \cap img_words
  IN Cardinality(common_words) >= 2 \/ \E w \in common_words : Len(w) > 5

\* the final `for img in images` loop, from position i on
RECURSIVE PartialMatchLoop(_, _, _)
PartialMatchLoop(i, c, images) ==
  IF i > Len(images) THEN Returned(0, 0, <<>>)
  ELSE IF c.csv_size > 0 /\ WithinOneKB(images[i], c.csv_size)
       THEN Returned(i, 10, <<>>)
  ELSE IF ShareWords(c, images[i]) THEN Returned(i, 11, <<>>)
  ELSE PartialMatchLoop(i + 1, c, images)

\* StrategyLoop going on to the next strategy when a tie stays unresolved
RECURSIVE StrategyLoopContinues(_, _, _, _)
StrategyLoopContinues(k, row, c, images) ==
  IF k > NumStrategies THEN PartialMatchLoop(1, c, images)
  ELSE LET matches == StrategyMatches(k, c, images)
           tie == ResolveTie(k, row, c, images, matches)
       IN IF Len(matches) = 1 THEN Returned(matches[1], k, <<>>)
          ELSE IF Len(matches) > 1 /\ tie.img # 0 THEN tie
          ELSE StrategyLoopContinues(k + 1, row, c, images)

\* the `for strategy in strategies` loop, from strategy k on
RECURSIVE StrategyLoop(_, _, _, _)
StrategyLoop(k, row, c, images) ==
  IF k > NumStrategies THEN PartialMatchLoop(1, c, images)
  ELSE LET matches == StrategyMatches(k, c, images)
       IN IF Len(matches) = 1 THEN Returned(matches[1], k, <<>>)
          ELSE IF Len(matches) > 1 THEN ResolveTie(k, row, c, images, matches)
          ELSE StrategyLoop(k + 1, row, c, images)

find_best_match(row, images) ==
  IF Len(images) = 0 THEN Returned(0, 0, <<>>)
  ELSE IF ~CsvSizeParses(row) THEN Raised
  ELSE StrategyLoop(1, row, Locals(row), images)

(***************************************************************************)
(* The inputs: image records the index can hold and rows the CSV can hold. *)
(***************************************************************************)
\* exactly 1024 bytes below a declared 30000; FileModifyDate as exiftool prints it
ImgExact ==
  [filename |-> <<"I","M","G","_","1",".","j","p","g">>,
   size |-> 28976,
   raw_filename |-> <<>>,
   modify_date |-> <<"2","0","2","4",":","0","5",":","0","1"," ","1","0",":","0","0",":","0","0","+","0","2",":","0","0">>]

\* 1025 bytes above 30000 (inside 5%); taken as IMG_1; 240 s after 10:00:00
ImgRawA ==
  [filename |-> <<"a"," ","1",".","j","p","g">>,
   size |-> 31025,
   raw_filename |-> <<"I","M","G","_","1",".","C","R","2">>,
   modify_date |-> <<"2","0","2","4",":","0","5",":","0","1"," ","1","0",":","0","4",":","0","0">>]

\* same size as ImgRawA; taken as img_1; 240 s before 10:00:00, with a fraction
ImgRawB ==
  [filename |-> <<"b"," ","1",".","p","n","g">>,
   size |-> 31025,
   raw_filename |-> <<"i","m","g","_","1",".","d","n","g">>,
   modify_date |-> <<"2","0","2","4",":","0","5",":","0","1"," ","0","9",":","5","6",":","0","0",".","5","0">>]

\* 1400 bytes above 30000 (inside 5%); 60 s after 10:00:00
ImgWordsTwo ==
  [filename |-> <<"r","e","d"," ","s","u","n","s","e","t"," ","x",".","j","p","g">>,
   size |-> 31400,
   raw_filename |-> <<>>,
   modify_date |-> <<"2","0","2","4",":","0","5",":","0","1"," ","1","0",":","0","1",":","0","0">>]

\* a file of less than 1024 bytes; the degraded record's str(datetime) modify_date
ImgWordLong ==
  [filename |-> <<"a"," ","s","u","n","s","e","t",".","j","p","g">>,
   size |-> 500,
   raw_filename |-> <<>>,
   modify_date |-> <<"2","0","2","4","-","0","5","-","0","1"," ","1","0",":","0","0",":","0","0",".","1","2","3","4","5","6">>]

\* 10 bytes above 30000; 600 s after 10:00:00
ImgBase ==
  [filename |-> <<"I","M","G","_","1",".","p","n","g">>,
   size |-> 30010,
   raw_filename |-> <<>>,
   modify_date |-> <<"2","0","2","4",":","0","5",":","0","1"," ","1","0",":","1","0",":","0","0">>]

\* 1025 bytes below 30000 (inside 5%); 1200 s after 10:00:00
ImgSub ==
  [filename |-> <<"s","u","n","s","e","t",".","j","p","g">>,
   size |-> 28975,
   raw_filename |-> <<>>,
   modify_date |-> <<"2","0","2","4",":","0","5",":","0","1"," ","1","0",":","2","0",":","0","0">>]

ImgJobb042 ==
  [filename |-> <<"J","o","b","b"," ","b","o","n","u","s"," ","i"," ","L","i","l","l","e","s","t","r","ø","m"," ","k","o","m","m","u","n","e"," ","0","4","2",".","j","p","g">>,
   size |-> 40000,
   raw_filename |-> <<>>,
   modify_date |-> <<"2","0","2","4",":","0","5",":","0","1"," ","1","0",":","0","0",":","0","0","+","0","2",":","0","0">>]

ImgJobb043 ==
  [filename |-> <<"J","o","b","b"," ","b","o","n","u","s"," ","i"," ","L","i","l","l","e","s","t","r","ø","m"," ","k","o","m","m","u","n","e"," ","0","4","3",".","j","p","g">>,
   size |-> 41000,
   raw_filename |-> <<>>,
   modify_date |-> <<"2","0","2","4",":","0","5",":","0","1"," ","1","0",":","0","0",":","0","0","+","0","2",":","0","0">>]

ImgOverlege7 ==
  [filename |-> <<"O","v","e","r","l","e","g","e"," ","J","a","c","o","b"," ","D","a","g"," ","B","e","r","i","l","d"," ","7",".","j","p","g">>,
   size |-> 42000,
   raw_filename |-> <<>>,
   modify_date |-> <<"2","0","2","4",":","0","5",":","0","1"," ","1","0",":","0","0",":","0","0","+","0","2",":","0","0">>]

ImgScan042 ==
  [filename |-> <<"s","c","a","n"," ","0","4","2",".","j","p","g">>,
   size |-> 43000,
   raw_filename |-> <<>>,
   modify_date |-> <<"2","0","2","4",":","0","5",":","0","1"," ","1","0",":","0","0",":","0","0","+","0","2",":","0","0">>]

NameImg1 == <<"I","M","G","_","1",".","J","P","G"," ">>

NameSunset == <<"s","u","n","s","e","t"," ","r","e","d",".","j","p","g">>

NamePhoto == <<"p","h","o","t","o",".","p","n","g">>

NameJHR42 == <<"J","H","R","-","4","2",".","j","p","g">>

NameJHR042 == <<"J","H","R","-","0","4","2",".","j","p","g">>

NameSAL7 == <<"S","A","L","-","7",".","j","p","g">>

SizedDated ==
  [FileSize |-> [has |-> TRUE, text |-> <<"3","0","0","0","0">>],
   PublishedDate |-> [has |-> TRUE, text |-> <<"2","0","2","4","-","0","5","-","0","1"," ","1","0",":","0","0",":","0","0">>]]

SizedUndated ==
  [FileSize |-> [has |-> TRUE, text |-> <<"3","0","0","0","0">>],
   PublishedDate |-> [has |-> TRUE, text |-> <<"0","1",".","0","5",".","2","0","2","4"," ","1","0",":","0","0">>]]

UnsizedDated ==
  [FileSize |-> [has |-> FALSE, text |-> <<>>],
   PublishedDate |-> [has |-> TRUE, text |-> <<"2","0","2","4","-","0","5","-","0","1"," ","1","0",":","0","0",":","0","0">>]]

EmptyFields ==
  [FileSize |-> [has |-> TRUE, text |-> <<>>],
   PublishedDate |-> [has |-> FALSE, text |-> <<>>]]

ZeroSize ==
  [FileSize |-> [has |-> TRUE, text |-> <<"0">>],
   PublishedDate |-> [has |-> TRUE, text |-> <<"2","0","2","4","-","0","5","-","0","1"," ","1","0",":","0","0",":","0","0">>]]

BadSize ==
  [FileSize |-> [has |-> TRUE, text |-> <<"a","b","c">>],
   PublishedDate |-> [has |-> TRUE, text |-> <<"2","0","2","4","-","0","5","-","0","1"," ","1","0",":","0","0",":","0","0">>]]


\* every sequence of 1..n distinct elements of S
RECURSIVE DistinctSeqs(_, _)
DistinctSeqs(S, n) ==
  IF n = 0 THEN {<<>>}
  ELSE LET shorter == DistinctSeqs(S, n - 1)
       IN shorter \cup
          { Append(q, x) : <<q, x>> \in
              { p \in shorter \X S :
                  Len(p[1]) = n - 1 /\ \A i \in 1..Len(p[1]) : p[1][i] # p[2] } }

PhotoPool == {ImgExact, ImgRawA, ImgRawB, ImgWordsTwo, ImgWordLong, ImgBase,
              ImgSub}

LegacyPool == {ImgJobb042, ImgJobb043, ImgOverlege7, ImgScan042}

\* the indexes build_img_index can return: files of one directory, so no
\* two records share a filename; main returns early on an empty index
Indexes ==
  (DistinctSeqs(PhotoPool, MaxImages) \cup DistinctSeqs(LegacyPool, MaxImages))
    \ {<<>>}

RowNames == {NameImg1, NameSunset, NamePhoto, NameJHR42, NameJHR042, NameSAL7}

RowFields == {SizedDated, SizedUndated, UnsizedDated, EmptyFields, ZeroSize,
              BadSize}

MakeRow(name, fields) ==
  [Filename |-> name, FileSize |-> fields.FileSize,
   PublishedDate |-> fields.PublishedDate]

Rows == { MakeRow(n, f) : <<n, f>> \in RowNames \X RowFields }

\* the smaller inputs of the runs of main
MainIndexes == DistinctSeqs({ImgRawA, ImgRawB, ImgWordLong}, MaxImages) \ {<<>>}

MainRows == { MakeRow(NameImg1, SizedDated), MakeRow(NameImg1, BadSize),
              MakeRow(NameSunset, UnsizedDated), MakeRow(NamePhoto, EmptyFields) }

\* no row read yet
NoRow == [Filename |-> <<>>, FileSize |-> [has |-> FALSE, text |-> <<>>],
          PublishedDate |-> [has |-> FALSE, text |-> <<>>]]

(***************************************************************************)
(* The state of a run of main.                                             *)
(***************************************************************************)
VARIABLES
  images,       \* the index build_img_index returned, built once
  dry_run,      \* args.dry_run
  pc,           \* "loop": reading rows; "done": summary printed;
                \* "crashed": an exception left main; "match": no run of
                \* main, find_best_match is called on its own
  row,          \* the row of the last iteration (NoRow before the first)
  res,          \* what find_best_match did for that row
  outcome,      \* the branch of the loop body the last iteration took
  processed,    \* the counters of main
  success,
  failed,
  no_match,
  ambiguous,
  place,        \* place[i]: the folder holding the file of images[i]
  writes,       \* writes[i]: the exiftool runs on images[i] that returned 0
  move_errors,  \* move_errors[i]: the moves of images[i] to Done that raised
  tied_rows,    \* rows for which disambiguate_matches returned None
  unmatched_rows \* rows for which no strategy and no final test matched

vars == <<images, dry_run, pc, row, res, outcome, processed, success, failed,
          no_match, ambiguous, place, writes, move_errors, tied_rows,
          unmatched_rows>>

counters == <<processed, success, failed, no_match, ambiguous>>

\* the str 'ambiguous' main compares the match with: a value that is neither
\* None (0) nor a candidate (a position >= 1)
AmbiguousMarker == 0 - 1

InitRun(idx, dry) ==
  /\ images = idx
  /\ dry_run = dry
  /\ row = NoRow
  /\ res = Returned(0, 0, <<>>)
  /\ outcome = "none"
  /\ processed = 0 /\ success = 0 /\ failed = 0 /\ no_match = 0 /\ ambiguous = 0
  /\ place = [i \in 1..Len(idx) |-> "workdir"]
  /\ writes = [i \in 1..Len(idx) |-> 0]
  /\ move_errors = [i \in 1..Len(idx) |-> 0]
  /\ tied_rows = 0
  /\ unmatched_rows = 0

\* main, at the head of the row loop: the index is built and not empty, the
\* CSV file exists, the counters are 0
Init ==
  /\ pc = "loop"
  /\ \E idx \in MainIndexes, dry \in BOOLEAN : InitRun(idx, dry)

\* for row in reader: processed += 1; match = find_best_match(row, images).
\* An exception of find_best_match leaves main: nothing catches it.
FindMatch(r) ==
  /\ pc = "loop"
  /\ processed < MaxRows
  /\ processed' = processed + 1
  /\ row' = r
  /\ res' = find_best_match(r, images)
  /\ pc' = IF res'.raised THEN "crashed" ELSE "matched"
  /\ outcome' = IF res'.raised THEN "raised" ELSE "pending"
  /\ tied_rows' = IF ~res'.raised /\ res'.img = 0 /\ Len(res'.tie) > 0
                  THEN tied_rows + 1 ELSE tied_rows
  /\ unmatched_rows' = IF ~res'.raised /\ res'.img = 0 /\ Len(res'.tie) = 0
                       THEN unmatched_rows + 1 ELSE unmatched_rows
  /\ UNCHANGED <<images, dry_run, success, failed, no_match, ambiguous, place,
                 writes, move_errors>>

\* `if not match` and `if match == 'ambiguous'`: count and continue
RowNotMatched ==
  /\ pc = "matched"
  /\ res.img \in {0, AmbiguousMarker}
  /\ no_match' = IF res.img = 0 THEN no_match + 1 ELSE no_match
  /\ ambiguous' = IF res.img = 0 THEN ambiguous ELSE ambiguous + 1
  /\ outcome' = IF res.img = 0 THEN "no_match" ELSE "ambiguous"
  /\ pc' = "loop"
  /\ UNCHANGED <<images, dry_run, row, res, processed, success, failed, place,
                 writes, move_errors, tied_rows, unmatched_rows>>

\* RowAlreadyDone without the check of Done: apply_iptc_metadata does not
\* find the file at its path and the row counts as failed
RowAlreadyDoneUnchecked ==
  /\ pc = "matched"
  /\ res.img \notin {0, AmbiguousMarker}
  /\ place[res.img] = "Done"
  /\ failed' = failed + 1
  /\ outcome' = "apply_failed"
  /\ pc' = "loop"
  /\ UNCHANGED <<images, dry_run, row, res, processed, success, no_match,
                 ambiguous, place, writes, move_errors, tied_rows,
                 unmatched_rows>>

\* os.path.exists(dest_path): the file is in Done already
RowAlreadyDone ==
  /\ pc = "matched"
  /\ res.img \notin {0, AmbiguousMarker}
  /\ place[res.img] = "Done"
  /\ success' = success + 1
  /\ outcome' = "skipped"
  /\ pc' = "loop"
  /\ UNCHANGED <<images, dry_run, row, res, processed, failed, no_match,
                 ambiguous, place, writes, move_errors, tied_rows,
                 unmatched_rows>>

\* apply_iptc_metadata returns True: the dry run, or exiftool returned 0;
\* then, unless it is a dry run, shutil.move to Done, which succeeds (moved)
\* or raises
RowApplied(moved) ==
  /\ pc = "matched"
  /\ res.img \notin {0, AmbiguousMarker}
  /\ place[res.img] = "workdir"
  /\ success' = success + 1
  /\ outcome' = "applied"
  /\ pc' = "loop"
  /\ writes' = IF dry_run THEN writes ELSE [writes EXCEPT ![res.img] = @ + 1]
  /\ place' = IF ~dry_run /\ moved
              THEN [place EXCEPT ![res.img] = "Done"] ELSE place
  /\ move_errors' = IF ~dry_run /\ ~moved
                    THEN [move_errors EXCEPT ![res.img] = @ + 1]
                    ELSE move_errors
  /\ failed' = IF ~dry_run /\ ~moved THEN failed + 1 ELSE failed
  /\ UNCHANGED <<images, dry_run, row, res, processed, no_match, ambiguous,
                 tied_rows, unmatched_rows>>

\* apply_iptc_metadata returns False: the file is not at its path, or
\* exiftool returned an error; then, unless it is a dry run, shutil.move to
\* Failed, which succeeds (moved) or raises
RowApplyFailed(moved) ==
  /\ pc = "matched"
  /\ res.img \notin {0, AmbiguousMarker}
  /\ place[res.img] # "Done"
  /\ place[res.img] = "workdir" => ~dry_run
  /\ failed' = failed + 1
  /\ outcome' = "apply_failed"
  /\ pc' = "loop"
  /\ place' = IF ~dry_run /\ moved /\ place[res.img] = "workdir"
              THEN [place EXCEPT ![res.img] = "Failed"] ELSE place
  /\ UNCHANGED <<images, dry_run, row, res, processed, success, no_match,
                 ambiguous, writes, move_errors, tied_rows, unmatched_rows>>

\* the reader has no more rows: the summary is printed
Finish ==
  /\ pc = "loop"
  /\ pc' = "done"
  /\ UNCHANGED <<images, dry_run, row, res, outcome, counters, place, writes,
                 move_errors, tied_rows, unmatched_rows>>

Next ==
  \/ \E r \in MainRows : FindMatch(r)
  \/ RowNotMatched
  \/ RowAlreadyDone
  \/ \E moved \in BOOLEAN : RowApplied(moved)
  \/ \E moved \in BOOLEAN : RowApplyFailed(moved)
  \/ Finish

Spec == Init /\ [][Next]_vars

(***************************************************************************)
(* find_best_match on its own: one index, one row, one call.               *)
(***************************************************************************)
InitMatch ==
  /\ pc = "match"
  /\ \E idx \in Indexes : InitRun(idx, FALSE)

Resolve(r) ==
  /\ pc = "match"
  /\ pc' = "matched"
  /\ row' = r
  /\ res' = find_best_match(r, images)
  /\ outcome' = IF res'.raised THEN "raised"
                ELSE IF res'.img = 0 THEN "no_match" ELSE "matched"
  /\ UNCHANGED <<images, dry_run, counters, place, writes, move_errors,
                 tied_rows, unmatched_rows>>

NextMatch == \E r \in Rows : Resolve(r)

SpecMatch == InitMatch /\ [][NextMatch]_vars

(***************************************************************************)
(* Properties.                                                             *)
(***************************************************************************)

\* the least element of a set of numbers, 0 for the empty set
First(S) == IF S = {} THEN 0 ELSE CHOOSE x \in S : \A y \in S : x <= y

\* a call of find_best_match has returned
Returns == pc = "matched" /\ ~res.raised

\* the first strategy of the ladder that matches a candidate, 0 if none does
FirstMatching(c, idx) ==
  First({k \in 1..NumStrategies : Len(StrategyMatches(k, c, idx)) > 0})

\* the declared size differs from the size of candidate i by d(i)
SizeDiff(i) == Abs(images[i].size - CsvSize(row))

\* C1: the first strategy of the ladder that matches a candidate is the one
\* find_best_match returns from: with one match it returns that candidate,
\* and with several that neither the size narrowing nor disambiguate_matches
\* reduces to one it returns None, whatever later strategies would match.
C1_FirstStrategyDecides ==
  Returns =>
    LET c == Locals(row)
        k == FirstMatching(c, images)
        M == StrategyMatches(k, c, images)
        InTol(i) == WithinSizeTolerance(images[i], c.csv_size)
        narrowed == c.csv_size > 0 /\ Len(SelectSeq(M, InTol)) = 1
    IN k # 0 =>
         /\ res.via = k
         /\ Len(M) = 1 => res.img = M[1]
         /\ (Len(M) > 1 /\ ~narrowed /\ disambiguate_matches(row, images, M) = 0)
              => res.img = 0

\* C1 witness: a tie at the first matching strategy stays unresolved while a
\* later strategy matches exactly one candidate.
C1_Witness ==
  /\ Returns
  /\ res.img = 0
  /\ Len(res.tie) > 1
  /\ res.via = FirstMatching(Locals(row), images)
  /\ \E k \in (res.via + 1)..NumStrategies :
       Len(StrategyMatches(k, Locals(row), images)) = 1

\* the candidates whose embedded original name equals the row's filename,
\* extensions stripped, whatever the case
RawNameMatches ==
  {i \in 1..Len(images) :
     /\ Len(images[i].raw_filename) > 0
     /\ Lower(SplitExtRoot(images[i].raw_filename))
          = Lower(SplitExtRoot(Strip(row.Filename)))}

\* C2: when exactly one candidate has a non-empty embedded original name
\* equal to the row's filename, find_best_match returns that candidate.
C2_UniqueRawNameWins ==
  (pc = "matched" /\ Cardinality(RawNameMatches) = 1) =>
    ~res.raised /\ res.img \in RawNameMatches

\* C2, for the rows on which int() does not raise (not a claim of its own:
\* what is left of C2 beside the ValueError of C5)
UniqueRawNameWinsWhenSizeParses ==
  (Returns /\ Cardinality(RawNameMatches) = 1) => res.img \in RawNameMatches

\* C3: every row whose tie disambiguate_matches could not break is counted
\* as ambiguous and not as no_match; every row that nothing matched is
\* counted as no_match.
C3_AmbiguousCountedApart ==
  pc \in {"loop", "done"} =>
    ambiguous = tied_rows /\ no_match = unmatched_rows

\* C4: the row JHR-42.jpg without a declared size, against the two Jobb
\* bonus files 042 and 043, resolves to the 042 file by the JHR rule.
C4_ScenarioB ==
  ( /\ pc = "matched"
    /\ row.Filename = NameJHR42
    /\ ~row.FileSize.has
    /\ {images[i] : i \in 1..Len(images)} = {ImgJobb042, ImgJobb043} )
  => /\ ~res.raised
     /\ res.img # 0
     /\ images[res.img] = ImgJobb042
     /\ res.via = 6

\* C5: no row aborts the run: find_best_match returns for every row and
\* main goes on with the next one.
C5_NoRowAborts == pc # "crashed" /\ ~res.raised

\* C6 as stated: for every row and candidate, the candidate satisfies
\* strategy 2 exactly when its size is within 1024 bytes of the declared size.
C6_AbsoluteToleranceAnyRow ==
  Returns =>
    \A i \in 1..Len(images) :
      Strategy(2, Locals(row), images[i]) <=> SizeDiff(i) <= 1024

\* C6 amended: for every row with a positive declared size, a candidate
\* satisfies strategy 2 exactly when its size is within 1024 bytes of it, and
\* a candidate returned by strategy 3 is more than 1024 bytes off and within
\* min(declared size * 0.05, 100 KiB); without a positive declared size no
\* candidate satisfies strategy 2.
C6_AbsoluteTolerance ==
  Returns =>
    /\ \A i \in 1..Len(images) :
         Strategy(2, Locals(row), images[i])
           <=> (CsvSize(row) > 0 /\ SizeDiff(i) <= 1024)
    /\ (res.via = 2 /\ res.img # 0) => SizeDiff(res.img) <= 1024
    /\ (res.via = 3 /\ res.img # 0) =>
         /\ SizeDiff(res.img) > 1024
         /\ 20 * SizeDiff(res.img) <= CsvSize(row)
         /\ SizeDiff(res.img) <= 100 * 1024

\* C6 witness: a candidate exactly 1024 bytes off is returned by strategy 2
\* beside a candidate 1025 bytes off that only strategy 3 accepts.
C6_Witness ==
  /\ Returns
  /\ res.via = 2 /\ res.img # 0
  /\ SizeDiff(res.img) = 1024
  /\ \E j \in 1..Len(images) :
       /\ SizeDiff(j) = 1025
       /\ ~Strategy(2, Locals(row), images[j])
       /\ Strategy(3, Locals(row), images[j])

\* the members of the tie handed to disambiguate_matches that are at the
\* minimum size difference
TieAtMinSize ==
  {i \in {res.tie[j] : j \in 1..Len(res.tie)} :
     \A l \in 1..Len(res.tie) : SizeDiff(i) <= SizeDiff(res.tie[l])}

\* the members of the tie whose modification date parses, and each one's
\* distance in seconds from the row's publish date
TieDated ==
  {i \in {res.tie[j] : j \in 1..Len(res.tie)} :
     Strptime(BeforeFirstDot(images[i].modify_date), ":").ok}

TieDateDiff(i) ==
  Abs(Strptime(BeforeFirstDot(images[i].modify_date), ":").t - CsvDate(row).t)

TieNearest == {i \in TieDated : \A l \in TieDated : TieDateDiff(i) <= TieDateDiff(l)}

\* no timestamp breaks the tie
NoDateBreaksTie ==
  \/ ~CsvDate(row).ok
  \/ TieDated = {}
  \/ \A i \in TieDated : TieDateDiff(i) >= 300
  \/ Cardinality(TieNearest) > 1

C8_ResolvedIsAtMinSize ==
  (Returns /\ Len(res.tie) >= 2 /\ res.img # 0) => res.img \in TieAtMinSize

\* every strategy of the ladder matches no candidate
NoStrategyMatches == FirstMatching(Locals(row), images) = 0

\* the candidates sharing two words, or one word of more than 5 characters,
\* with the row's basename
WordSharers ==
  {i \in 1..Len(images) :
     LET common == Words(Lower(SplitExtRoot(Strip(row.Filename))))
                     \cap Words(Lower(SplitExtRoot(images[i].filename)))
     IN Cardinality(common) >= 2 \/ \E w \in common : Len(w) > 5}

\* C9 as stated: when no strategy matches, the first candidate within 1024
\* bytes of the declared size is returned if there is one, else the first
\* candidate sharing words, else None.
C9_FallbackAnyRow ==
  (Returns /\ NoStrategyMatches) =>
    LET near == {i \in 1..Len(images) : SizeDiff(i) <= 1024}
    IN res.img = IF near # {} THEN First(near) ELSE First(WordSharers)

\* C9 amended: the size test counts only against a positive declared size.
C9_Fallback ==
  (Returns /\ NoStrategyMatches) =>
    LET near == {i \in 1..Len(images) : CsvSize(row) > 0 /\ SizeDiff(i) <= 1024}
    IN res.img = IF near # {} THEN First(near) ELSE First(WordSharers)

\* C9 witness: no strategy matches, two candidates share words with the row
\* and the first of them is returned.
C9_Witness ==
  /\ Returns
  /\ NoStrategyMatches
  /\ Cardinality(WordSharers) >= 2
  /\ res.img = First(WordSharers)

=============================================================================
